---- MODULE Spec2Model ----
(***************************************************************************)
(* MidDB storage engine (src/MidDB.cpp, the HNSW + field-index version,    *)
(* lines 131-492): tables of records with an inverted field index and an   *)
(* ANN index, an asynchronous insert queue drained by one worker thread,   *)
(* a synchronous remove, three read queries, and JSON/index snapshots.     *)
(*                                                                         *)
(* Atomicity follows the locks of the code: everything done under          *)
(* queueMutex (enqueue, the drain of a batch) is one step, and everything  *)
(* done under dbMutex (one processInsert, one remove, one query, one       *)
(* saveAllTables) is one step.                                             *)
(***************************************************************************)
EXTENDS Integers, Sequences, FiniteSets, TLC

\* ------------------------------------------------------------- bounds
\* Write calls (insert, update, remove) accepted per model run.
MaxCalls == 3
\* Tasks drained per worker iteration: the code's 100 (line 195) scaled down
\* so that a queue of MaxCalls tasks can exceed one batch.
BatchSize == 2

\* ------------------------------------------------------------- inputs
TableNames == {"users"}
RecordIDs == {"user1", "user2"}
\* std::string order of the record ids (std::sort, and nlohmann's ordered object).
IdOrder == <<"user1", "user2">>
Keys == {"name"}
Vals == {"Alice", "Bob"}
\* Coordinates a float can take here, also what an out-of-bounds read may find.
Coords == {0, 2}
\* The {fields, embedding} a write request carries: two that differ only in
\* the embedding, two only in the field value, two in both.
Bodies ==
  {[fields |-> [name |-> "Alice"], embedding |-> <<0>>],
   [fields |-> [name |-> "Alice"], embedding |-> <<2>>],
   [fields |-> [name |-> "Bob"], embedding |-> <<2>>]}
Embeddings == {b.embedding : b \in Bodies}
\* Query vectors: the stored ones, and one longer than any table's dim.
QueryVecs == Embeddings \cup {<<0, 0>>}
HybridVecs == {<<0>>}
TopKs == {1, 2}

EmptyFn == [x \in {} |-> 0]
\* What iterating a destroyed unordered_map<string,string> can yield.
DanglingViews == UNION {[K -> Vals] : K \in SUBSET Keys}

Min(a, b) == IF a <= b THEN a ELSE b

Rank(id) == CHOOSE i \in 1..Len(IdOrder) : IdOrder[i] = id

RECURSIVE SortIds(_)
\* sort(result.begin(), result.end()) over a set of ids
SortIds(S) ==
  IF S = {} THEN <<>>
  ELSE LET m == CHOOSE x \in S : \A y \in S : Rank(x) <= Rank(y)
       IN <<m>> \o SortIds(S \ {m})

Range(s) == {s[i] : i \in DOMAIN s}

\* ------------------------------------------------------------- ANN index
(* hnswlib::HierarchicalNSW<float> over hnswlib::L2Space, as far as the     *)
(* engine uses it, with exact search (the tables here are tiny).  points    *)
(* maps a label to the dim floats copied at addPoint; deleted holds the     *)
(* labels marked deleted.                                                   *)
NoIndex == [present |-> FALSE, dim |-> 0, points |-> EmptyFn, deleted |-> {}]

NewIndex(d) == [present |-> TRUE, dim |-> d, points |-> EmptyFn, deleted |-> {}]

\* What reading n floats at v.data() can yield: v's own floats, then, past its
\* end (undefined behaviour), whatever the memory holds.
MemoryView(v, n) ==
  IF Len(v) >= n THEN {v}
  ELSE {v \o g : g \in [1..(n - Len(v)) -> Coords]}

\* The mutant of addPoint: a label the index already holds keeps its point.
addPointKeepsOld(idx, data, label) ==
  [idx EXCEPT !.points = idx.points @@ (label :> SubSeq(data, 1, idx.dim)),
              !.deleted = idx.deleted \ {label}]

\* addPoint copies dim floats of data to label, overwriting a point that is
\* already there and clearing its deleted mark.
addPoint(idx, data, label) ==
  [idx EXCEPT !.points = (label :> SubSeq(data, 1, idx.dim)) @@ idx.points,
              !.deleted = idx.deleted \ {label}]

\* markDelete throws for a label the index does not hold or has already deleted.
markDeleteThrows(idx, label) ==
  label \notin DOMAIN idx.points \/ label \in idx.deleted

markDelete(idx, label) == [idx EXCEPT !.deleted = idx.deleted \cup {label}]

LiveLabels(idx) == DOMAIN idx.points \ idx.deleted

RECURSIVE SqSum(_, _, _)
SqSum(p, q, n) ==
  IF n = 0 THEN 0 ELSE (p[n] - q[n]) * (p[n] - q[n]) + SqSum(p, q, n - 1)

\* L2Space's distance: the squared Euclidean distance over dim floats.
L2Sqr(idx, data, label) == SqSum(idx.points[label], data, idx.dim)

\* The label sets a k-NN search may return: min(k, live) live labels, none
\* farther than a live label left out (which of two equidistant points makes
\* the cut is not determined).
KnnSets(idx, data, k) ==
  LET live == LiveLabels(idx)
      n == Min(k, Cardinality(live))
  IN {S \in SUBSET live :
        /\ Cardinality(S) = n
        /\ \A a \in S, b \in live \ S : L2Sqr(idx, data, a) <= L2Sqr(idx, data, b)}

\* searchKnn returns std::priority_queue<std::pair<float, labeltype>>, a
\* max-heap under std::less: top() is the largest (distance, label) pair.
HeapTop(idx, data, S) ==
  CHOOSE a \in S : \A b \in S :
    \/ L2Sqr(idx, data, a) > L2Sqr(idx, data, b)
    \/ (L2Sqr(idx, data, a) = L2Sqr(idx, data, b) /\ a >= b)

RECURSIVE DrainLabels(_, _, _)
\* while (!labels.empty()) { item = labels.top(); labels.pop(); ... }
DrainLabels(idx, data, S) ==
  IF S = {} THEN <<>>
  ELSE LET a == HeapTop(idx, data, S)
       IN <<a>> \o DrainLabels(idx, data, S \ {a})

\* ------------------------------------------------------------- tables
NewFieldIndex == [k \in Keys |-> [v \in Vals |-> {}]]

\* Table t; t.dim = dim;  (a bucket that was never created and an empty
\* bucket are the same to every reader, so fieldIndex is total).
NewTable(d) ==
  [records |-> EmptyFn, index |-> NoIndex, labelToID |-> EmptyFn,
   nextLabel |-> 0, dim |-> d, fieldIndex |-> NewFieldIndex]

createTable(tbls, t, d) ==
  IF t \in DOMAIN tbls THEN tbls ELSE (t :> NewTable(d)) @@ tbls

\* The mutant of IndexFields: the index is left as it was.
IndexFieldsSkipped(fi, id, fields) == fi

\* for (auto &[key,val] : fields) fieldIndex[key][val].insert(id);
IndexFields(fi, id, fields) ==
  [k \in Keys |-> [v \in Vals |->
      IF k \in DOMAIN fields /\ fields[k] = v THEN fi[k][v] \cup {id} ELSE fi[k][v]]]

\* The dim of the index processInsert adds the task's point to.
IndexDimFor(tbls, task) ==
  IF task.tableName \in DOMAIN tbls /\ tbls[task.tableName].index.present
  THEN tbls[task.tableName].index.dim
  ELSE Len(task.embedding)

\* The mutant of LabelFor: an upsert of a live record takes a fresh label too.
LabelForFresh(table, id) == table.nextLabel

\* label = recIt->second.label for a record found, table.nextLabel otherwise.
LabelFor(table, id) ==
  IF id \in DOMAIN table.records THEN table.records[id].label ELSE table.nextLabel

\* The mutant of NextLabelAfter: the counter is left as it was.
NextLabelAfterSame(table, id) == table.nextLabel

\* table.nextLabel++ on the insert branch only.
NextLabelAfter(table, id) ==
  IF id \in DOMAIN table.records THEN table.nextLabel ELSE table.nextLabel + 1

\* processInsert, with data what addPoint reads at task.embedding.data().
processInsert(tbls, task, data) ==
  LET t == task.tableName
      T1 == createTable(tbls, t, Len(task.embedding))
      table == T1[t]
      index0 == IF table.index.present THEN table.index
                ELSE NewIndex(Len(task.embedding))
      label == LabelFor(table, task.recordID)
      rec == [fields |-> task.fields, embedding |-> task.embedding, label |-> label]
  IN [T1 EXCEPT ![t] =
        [records |-> (task.recordID :> rec) @@ table.records,
         index |-> addPoint(index0, data, label),
         labelToID |-> (label :> task.recordID) @@ table.labelToID,
         nextLabel |-> NextLabelAfter(table, task.recordID),
         dim |-> table.dim,
         fieldIndex |-> IndexFields(table.fieldIndex, task.recordID, task.fields)]]

Without(f, x) == [y \in DOMAIN f \ {x} |-> f[y]]

\* The loop of remove over it->second.fields, run after records.erase(it):
\* seen is what the dangling iterator yields.
UnindexFields(fi, id, seen) ==
  [k \in Keys |-> [v \in Vals |->
      IF k \in DOMAIN seen /\ seen[k] = v THEN fi[k][v] \ {id} ELSE fi[k][v]]]

\* The mutant of EraseLabel: the entry is left in the map.
EraseLabelNot(l2id, label) == l2id

\* table.labelToID.erase(label)
EraseLabel(l2id, label) == Without(l2id, label)

\* The mutant of removeAbsent: tables[tableName] is evaluated before the
\* lookup and creates the table.
removeAbsentCreates(tbls, t) == createTable(tbls, t, 0)

\* remove on a table or record it does not find: the early returns.
removeAbsent(tbls, t) == tbls

\* remove finds the record (the early returns of lines 291 and 294 are not taken).
removeFinds(tbls, t, id) == t \in DOMAIN tbls /\ id \in DOMAIN tbls[t].records

\* remove on a record it finds; seen as in UnindexFields.  markDelete's throw
\* leaves the function after the maps were changed.
remove(tbls, t, id, seen) ==
  LET table == tbls[t]
      label == table.records[id].label
      throws == table.index.present /\ markDeleteThrows(table.index, label)
  IN [tbls EXCEPT ![t] =
        [table EXCEPT
           !.records = Without(table.records, id),
           !.labelToID = EraseLabel(table.labelToID, label),
           !.fieldIndex = UnindexFields(table.fieldIndex, id, seen),
           !.index = IF table.index.present /\ ~throws
                     THEN markDelete(table.index, label) ELSE table.index]]

removeThrows(tbls, t, id) ==
  LET table == tbls[t]
  IN table.index.present /\ markDeleteThrows(table.index, table.records[id].label)

\* ------------------------------------------------------------- queries
queryField(tbls, t, field, value) ==
  IF t \notin DOMAIN tbls THEN <<>>
  ELSE SortIds(tbls[t].fieldIndex[field][value])

RECURSIVE MapLabels(_, _)
\* it = labelToID.find(label); if (it != end) result.push_back(it->second);
MapLabels(l2id, labels) ==
  IF labels = <<>> THEN <<>>
  ELSE (IF Head(labels) \in DOMAIN l2id THEN <<l2id[Head(labels)]>> ELSE <<>>)
       \o MapLabels(l2id, Tail(labels))

\* Whether queryEmbedding reaches searchKnn.
queryEmbeddingSearches(tbls, t) == t \in DOMAIN tbls /\ tbls[t].index.present

\* Every list queryEmbedding may return.
queryEmbedding(tbls, t, q, topK) ==
  IF ~queryEmbeddingSearches(tbls, t) THEN {<<>>}
  ELSE LET table == tbls[t]
           idx == table.index
       IN {MapLabels(table.labelToID, DrainLabels(idx, data, S)) :
             <<data, S>> \in UNION {{<<d, S2>> : S2 \in KnnSets(idx, d, topK)} :
                                      d \in MemoryView(q, idx.dim)}}

\* The mutant of Inflate: the candidates are not over-fetched.
InflateNot(topK) == topK

\* topK*10
Inflate(topK) == topK * 10

RECURSIVE FilterLoop(_, _)
\* for (auto &id : candidateIDs) if (filterSet.count(id)) final.push_back(id);
FilterLoop(candidateIDs, filterSet) ==
  IF candidateIDs = <<>> THEN <<>>
  ELSE (IF Head(candidateIDs) \in filterSet THEN <<Head(candidateIDs)>> ELSE <<>>)
       \o FilterLoop(Tail(candidateIDs), filterSet)

\* if (final.size() > topK) final.resize(topK);
Resize(final, topK) == IF Len(final) > topK THEN SubSeq(final, 1, topK) ELSE final

\* queryHybrid once its two sub-queries have returned filteredIDs and candidateIDs.
queryHybridFinal(filteredIDs, candidateIDs, topK) ==
  IF filteredIDs = <<>> THEN <<>>
  ELSE Resize(FilterLoop(candidateIDs, Range(filteredIDs)), topK)

\* ------------------------------------------------------------- persistence
\* saveTable: the JSON object, whose members nlohmann keeps ordered by key;
\* a table without records dumps as null, here the empty sequence.
saveTable(table) ==
  LET ids == SortIds(DOMAIN table.records)
  IN [i \in 1..Len(ids) |->
        [id |-> ids[i],
         fields |-> table.records[ids[i]].fields,
         embedding |-> table.records[ids[i]].embedding,
         label |-> table.records[ids[i]].label]]

\* saveIndex: the .index file is written only when the table has an index.
saveIndex(table, oldFile) == IF table.index.present THEN table.index ELSE oldFile

saveAllTables(tbls, dsk) ==
  [t \in DOMAIN tbls |->
     [json |-> saveTable(tbls[t]),
      index |-> saveIndex(tbls[t], IF t \in DOMAIN dsk THEN dsk[t].index ELSE NoIndex)]]
  @@ dsk

RECURSIVE LoadRecords(_, _)
\* The loop of loadTable over j.items().
LoadRecords(t, j) ==
  IF j = <<>> THEN t
  ELSE LET r == Head(j)
           rec == [fields |-> r.fields, embedding |-> r.embedding, label |-> r.label]
       IN LoadRecords(
            [records |-> (r.id :> rec) @@ t.records,
             index |-> t.index,
             labelToID |-> (r.label :> r.id) @@ t.labelToID,
             nextLabel |-> IF r.label >= t.nextLabel THEN r.label + 1 ELSE t.nextLabel,
             dim |-> IF t.dim = 0 THEN Len(r.embedding) ELSE t.dim,
             fieldIndex |-> IndexFields(t.fieldIndex, r.id, r.fields)],
            Tail(j))

loadTable(file) ==
  LET t == LoadRecords(NewTable(0), file.json)
  IN [t EXCEPT !.index = IF file.index.present /\ t.dim > 0
                         THEN [file.index EXCEPT !.dim = t.dim]
                         ELSE NoIndex]

\* ------------------------------------------------------------- state
VARIABLES
  tables,       \* unordered_map<string,Table> tables
  insertQueue,  \* queue<InsertTask> insertQueue
  stopWorker,   \* bool stopWorker
  wpc,          \* where the worker thread is: "wait", "apply", "save", "exited"
  batch,        \* the tasks of the worker's batch not yet applied
  disk,         \* the files of storageDir, per table: the .json and the .index
  calls,        \* write calls accepted so far in this model run
  deleteLast,   \* ghost: the record ids whose latest write call is a remove
  last,         \* ghost: the step just taken and what it returned
  dbMutex,      \* shared_mutex dbMutex: the calls inside a critical section on it
  notifyDue     \* calls of cv.notify_one / notify_all that are still to be made

vars == <<tables, insertQueue, stopWorker, wpc, batch, disk, calls, deleteLast, last,
         dbMutex, notifyDue>>

\* dbMutex held by nobody.
Unlocked == [exclusive |-> {}, shared |-> {}]

NoStep == [op |-> "none"]

QueryOps == {"queryField", "queryEmbedding", "queryHybrid"}

\* MidDB(): an empty storage directory, the worker started.
Init ==
  /\ tables = EmptyFn
  /\ insertQueue = <<>>
  /\ stopWorker = FALSE
  /\ wpc = "wait"
  /\ batch = <<>>
  /\ disk = EmptyFn
  /\ calls = 0
  /\ deleteLast = {}
  /\ last = NoStep
  /\ dbMutex = Unlocked
  /\ notifyDue = 0

\* A query changes nothing, so its answer is looked at in the state it was
\* computed in and the next step only hands it over (Deliver); every other
\* step starts from a state with no answer pending.
Idle == last.op \notin QueryOps

\* The HTTP server hands requests to the engine until the destructor runs.
Serving == Idle /\ ~stopWorker

\* The worker's batch followed by the queue: the tasks accepted and not applied.
Pending == batch \o insertQueue

\* Every table's files are what saveAllTables would write now.
SnapshotCurrent == disk = saveAllTables(tables, disk)

\* Queue empty, worker idle, and a snapshot taken after the last write.
Quiesced ==
  /\ insertQueue = <<>>
  /\ batch = <<>>
  /\ wpc \in {"wait", "exited"}
  /\ SnapshotCurrent

\* The mutant of insert: the task is pushed at the front of the queue.
insertAtFront(t, id, fields, embedding) ==
  /\ Serving
  /\ calls < MaxCalls
  /\ insertQueue' =
       <<[tableName |-> t, recordID |-> id, fields |-> fields, embedding |-> embedding]>>
       \o insertQueue
  /\ calls' = calls + 1
  /\ deleteLast' = deleteLast \ {id}
  /\ last' = NoStep
  /\ UNCHANGED <<tables, stopWorker, wpc, batch, disk,
                 dbMutex, notifyDue>>

\* insert: push the task under queueMutex.
insert(t, id, fields, embedding) ==
  /\ Serving
  /\ calls < MaxCalls
  /\ insertQueue' = Append(insertQueue,
        [tableName |-> t, recordID |-> id, fields |-> fields, embedding |-> embedding])
  /\ calls' = calls + 1
  /\ deleteLast' = deleteLast \ {id}
  /\ last' = NoStep
  /\ UNCHANGED <<tables, stopWorker, wpc, batch, disk,
                 dbMutex, notifyDue>>

\* The /insert handler.
Insert ==
  \E t \in TableNames, id \in RecordIDs, b \in Bodies :
    insert(t, id, b.fields, b.embedding)

\* update: insert(tableName, recordID, fields, embedding)
Update ==
  \E t \in TableNames, id \in RecordIDs, b \in Bodies :
    insert(t, id, b.fields, b.embedding)

\* remove, under the exclusive dbMutex; the /delete handler answers 400 when
\* it throws.
Remove ==
  \E t \in TableNames, id \in RecordIDs :
    /\ Serving
    /\ calls < MaxCalls
    /\ calls' = calls + 1
    /\ deleteLast' = deleteLast \cup {id}
    /\ IF removeFinds(tables, t, id)
       THEN \E seen \in DanglingViews :
              /\ tables' = remove(tables, t, id, seen)
              /\ last' = [op |-> "remove", table |-> t, id |-> id, found |-> TRUE,
                          fields |-> tables[t].records[id].fields,
                          label |-> tables[t].records[id].label,
                          status |-> IF removeThrows(tables, t, id) THEN 400 ELSE 200]
       ELSE /\ tables' = removeAbsent(tables, t)
            /\ last' = [op |-> "remove", table |-> t, id |-> id, found |-> FALSE,
                        status |-> 200]
    /\ UNCHANGED <<insertQueue, stopWorker, wpc, batch, disk,
                 dbMutex, notifyDue>>

\* The mutant of DrainCount: the batch limit is off by one.
DrainCountOver(n) == Min(n, BatchSize + 1)

\* The mutant of WorkerBreaks: the worker leaves as soon as the flag is set.
WorkerBreaksOnStop(stop, queue) == stop

\* if (stopWorker && insertQueue.empty()) break;
WorkerBreaks(stop, queue) == stop /\ queue = <<>>

\* while (!insertQueue.empty() && batch.size() < 100): the tasks one drain moves.
DrainCount(n) == Min(n, BatchSize)

\* The mutant of NextTask: the batch is walked from its back.
NextTaskFromBack(b) == Len(b)

\* for (auto &task : batch): the position in the rest of the batch of the task
\* applied next.
NextTask(b) == 1

\* The worker's critical section on queueMutex when it goes on: wait_for has
\* returned (a task, the stop flag or the 5 s timeout), and up to BatchSize
\* tasks move from the front of the queue to the batch.
WorkerDrain ==
  /\ Idle
  /\ wpc = "wait"
  /\ ~WorkerBreaks(stopWorker, insertQueue)
  /\ LET n == DrainCount(Len(insertQueue))
     IN /\ batch' = SubSeq(insertQueue, 1, n)
        /\ insertQueue' = SubSeq(insertQueue, n + 1, Len(insertQueue))
        /\ wpc' = IF n = 0 THEN "save" ELSE "apply"
  /\ last' = NoStep
  /\ UNCHANGED <<tables, stopWorker, disk, calls, deleteLast,
                 dbMutex, notifyDue>>

\* if (stopWorker && insertQueue.empty()) break;
WorkerExit ==
  /\ Idle
  /\ wpc = "wait"
  /\ WorkerBreaks(stopWorker, insertQueue)
  /\ wpc' = "exited"
  /\ last' = NoStep
  /\ UNCHANGED <<tables, insertQueue, stopWorker, batch, disk, calls,
                 deleteLast,
                 dbMutex, notifyDue>>

\* for (auto &task : batch) processInsert(task);  one task per step.
WorkerApply ==
  /\ Idle
  /\ wpc = "apply"
  /\ LET i == NextTask(batch)
         task == batch[i]
     IN /\ \E data \in MemoryView(task.embedding, IndexDimFor(tables, task)) :
             tables' = processInsert(tables, task, data)
        /\ last' = [op |-> "apply", task |-> task,
                    existed |-> removeFinds(tables, task.tableName, task.recordID)]
        /\ batch' = [j \in 1..(Len(batch) - 1) |-> IF j < i THEN batch[j] ELSE batch[j + 1]]
  /\ wpc' = IF Len(batch) = 1 THEN "save" ELSE "apply"
  /\ UNCHANGED <<insertQueue, stopWorker, disk, calls, deleteLast,
                 dbMutex, notifyDue>>

\* saveAllTables, under the shared dbMutex.
WorkerSave ==
  /\ Idle
  /\ wpc = "save"
  /\ disk' = saveAllTables(tables, disk)
  /\ wpc' = "wait"
  /\ last' = NoStep
  /\ UNCHANGED <<tables, insertQueue, stopWorker, batch, calls, deleteLast,
                 dbMutex, notifyDue>>

\* ~MidDB(): stopWorker = true under queueMutex, notify_all, join.
Destructor ==
  /\ Idle
  /\ ~stopWorker
  /\ stopWorker' = TRUE
  /\ last' = NoStep
  /\ UNCHANGED <<tables, insertQueue, wpc, batch, disk, calls, deleteLast,
                 dbMutex, notifyDue>>

\* The process ends (the destructor has joined the worker, or the process is
\* killed between two file writes) and a fresh MidDB() is constructed from
\* storageDir: loadTable for every .json, an empty queue, a new worker.
Restart ==
  /\ Idle
  /\ tables' = [t \in DOMAIN disk |-> loadTable(disk[t])]
  /\ insertQueue' = <<>>
  /\ batch' = <<>>
  /\ wpc' = "wait"
  /\ stopWorker' = FALSE
  /\ deleteLast' = {}
  /\ last' = IF Quiesced THEN [op |-> "restart", quiesced |-> TRUE, before |-> tables]
             ELSE [op |-> "restart", quiesced |-> FALSE]
  /\ UNCHANGED <<disk, calls,
                 dbMutex, notifyDue>>

QueryField ==
  \E t \in TableNames, k \in Keys, v \in Vals :
    /\ Serving
    /\ last' = [op |-> "queryField", table |-> t, field |-> k, value |-> v,
                result |-> queryField(tables, t, k, v)]
    /\ UNCHANGED <<tables, insertQueue, stopWorker, wpc, batch, disk, calls, deleteLast,
                 dbMutex, notifyDue>>

\* The /queryEmbedding handler: nothing in queryEmbedding throws, so it
\* answers 200 with the ids.
QueryEmbedding ==
  \E t \in TableNames, q \in QueryVecs, topK \in TopKs :
    /\ Serving
    /\ \E r \in queryEmbedding(tables, t, q, topK) :
         last' = [op |-> "queryEmbedding", table |-> t, query |-> q, topK |-> topK,
                  searched |-> queryEmbeddingSearches(tables, t),
                  status |-> 200, result |-> r]
    /\ UNCHANGED <<tables, insertQueue, stopWorker, wpc, batch, disk, calls, deleteLast,
                 dbMutex, notifyDue>>

\* queryHybrid with no write landing between its two sub-queries.
QueryHybrid ==
  \E t \in TableNames, k \in Keys, v \in Vals, q \in HybridVecs, topK \in TopKs :
    /\ Serving
    /\ LET filteredIDs == queryField(tables, t, k, v)
       IN \E candidateIDs \in (IF filteredIDs = <<>> THEN {<<>>}
                               ELSE queryEmbedding(tables, t, q, Inflate(topK))) :
            last' = [op |-> "queryHybrid", table |-> t, field |-> k, value |-> v,
                     query |-> q, topK |-> topK,
                     filteredIDs |-> filteredIDs, candidateIDs |-> candidateIDs,
                     result |-> queryHybridFinal(filteredIDs, candidateIDs, topK)]
    /\ UNCHANGED <<tables, insertQueue, stopWorker, wpc, batch, disk, calls, deleteLast,
                 dbMutex, notifyDue>>

\* The handler has sent the answer of a query.
Deliver ==
  /\ ~Idle
  /\ last' = NoStep
  /\ UNCHANGED <<tables, insertQueue, stopWorker, wpc, batch, disk, calls, deleteLast,
                 dbMutex, notifyDue>>

Next ==
  \/ Insert
  \/ Update
  \/ Remove
  \/ WorkerDrain
  \/ WorkerExit
  \/ WorkerApply
  \/ WorkerSave
  \/ Destructor
  \/ Restart
  \/ QueryField
  \/ QueryEmbedding
  \/ QueryHybrid
  \/ Deliver

Spec == Init /\ [][Next]_vars

\* Request bodies whose embedding has another length than those of Bodies:
\* the handler takes any JSON array of numbers, the empty one included.
OddBodies ==
  {[fields |-> [name |-> "Alice"], embedding |-> <<>>],
   [fields |-> [name |-> "Alice"], embedding |-> <<0, 2>>]}

\* The /insert handler, called with embeddings of other lengths.
InsertOdd ==
  \E t \in TableNames, id \in RecordIDs, b \in OddBodies :
    insert(t, id, b.fields, b.embedding)

\* One run of the engine whose callers submit embeddings of any length.
NextLen ==
  \/ Insert
  \/ InsertOdd
  \/ Remove
  \/ WorkerDrain
  \/ WorkerApply
  \/ WorkerSave
  \/ QueryField
  \/ QueryEmbedding
  \/ QueryHybrid
  \/ Deliver

SpecLen == Init /\ [][NextLen]_vars

\* An .index file cut short: what a process killed inside index->saveIndex
\* leaves behind.
TruncatedFile == [present |-> TRUE, truncated |-> TRUE]

\* new HierarchicalNSW<float>(space, indexFile) throws on a file it cannot
\* deserialize; loadTable reaches it when the file is there and t.dim > 0.
loadThrows(file) ==
  /\ file.index.present
  /\ "truncated" \in DOMAIN file.index
  /\ LoadRecords(NewTable(0), file.json).dim > 0

\* saveAllTables as far as the .json files: saveTable of every table.
SaveJson ==
  /\ Idle
  /\ wpc = "save"
  /\ disk' = [t \in DOMAIN tables |->
               [json |-> saveTable(tables[t]),
                index |-> IF t \in DOMAIN disk THEN disk[t].index ELSE NoIndex]]
             @@ disk
  /\ wpc' = "saveIndex"
  /\ last' = NoStep
  /\ UNCHANGED <<tables, insertQueue, stopWorker, batch, calls, deleteLast,
                 dbMutex, notifyDue>>

\* saveAllTables, the .index files: saveIndex of every table.
SaveIndexFiles ==
  /\ Idle
  /\ wpc = "saveIndex"
  /\ disk' = saveAllTables(tables, disk)
  /\ wpc' = "wait"
  /\ last' = NoStep
  /\ UNCHANGED <<tables, insertQueue, stopWorker, batch, calls, deleteLast,
                 dbMutex, notifyDue>>

\* The files a kill of the process leaves: those on disk, or, when the worker
\* was writing the .index files, some of them cut short.
KillOutcomes ==
  {disk} \cup
  (IF wpc = "saveIndex"
   THEN {[t \in DOMAIN disk |->
            IF t \in S THEN [disk[t] EXCEPT !.index = TruncatedFile] ELSE disk[t]] :
           S \in SUBSET {t \in DOMAIN disk : tables[t].index.present} \ {{}}}
   ELSE {})

\* The process is killed and MidDB() runs again on storageDir.  An exception
\* of loadTable leaves the constructor and main uncaught: the process
\* terminates, which is wpc = "terminated" with no table, and stopWorker set
\* so that no handler runs.
Recover ==
  /\ Idle
  /\ \E dsk \in KillOutcomes :
       /\ disk' = dsk
       /\ IF \E t \in DOMAIN dsk : loadThrows(dsk[t])
          THEN /\ tables' = EmptyFn
               /\ wpc' = "terminated"
               /\ stopWorker' = TRUE
               /\ last' = [op |-> "recover", unreadable |-> TRUE]
          ELSE /\ tables' = [t \in DOMAIN dsk |-> loadTable(dsk[t])]
               /\ wpc' = "wait"
               /\ stopWorker' = FALSE
               /\ last' = [op |-> "recover", unreadable |-> FALSE]
  /\ insertQueue' = <<>>
  /\ batch' = <<>>
  /\ deleteLast' = {}
  /\ UNCHANGED <<calls, dbMutex, notifyDue>>

\* The engine with kills of the process at any point, between the file
\* writes of a snapshot included.
NextCrash ==
  \/ Insert
  \/ Remove
  \/ WorkerDrain
  \/ WorkerApply
  \/ SaveJson
  \/ SaveIndexFiles
  \/ Recover
  \/ QueryField
  \/ QueryEmbedding
  \/ Deliver

SpecCrash == Init /\ [][NextCrash]_vars

\* The mutant of WaitPredicate: a queued task does not end the wait.
WaitPredicateStopOnly(queue, stop) == stop

\* [&]{ return !insertQueue.empty() || stopWorker; }
WaitPredicate(queue, stop) == queue # <<>> \/ stop

\* The mutant of Wake: the notification does not reach the waiting worker.
WakeLost(pc) == pc

\* cv.notify_one() / cv.notify_all(): a worker blocked in the wait resumes
\* and takes queueMutex again; with no thread waiting nothing happens.
Wake(pc) == IF pc = "blocked" THEN "wait" ELSE pc

\* The requests of the runs with the condition variable: upserts of one
\* record, with two bodies that differ in the field value and in the embedding.
PushIDs == {"user1"}

PushBodies == {b \in Bodies : b.embedding = <<0>> \/ b.fields["name"] = "Bob"}

\* insert up to the end of its critical section; cv.notify_one() is still to come.
InsertPush ==
  \E t \in TableNames, id \in PushIDs, b \in PushBodies :
    /\ Serving
    /\ calls < MaxCalls
    /\ insertQueue' = Append(insertQueue,
          [tableName |-> t, recordID |-> id,
           fields |-> b.fields, embedding |-> b.embedding])
    /\ calls' = calls + 1
    /\ notifyDue' = notifyDue + 1
    /\ deleteLast' = deleteLast \ {id}
    /\ last' = NoStep
    /\ UNCHANGED <<tables, stopWorker, wpc, batch, disk, dbMutex>>

\* ~MidDB() up to the end of its critical section; cv.notify_all() is still to come.
Stop ==
  /\ ~stopWorker
  /\ stopWorker' = TRUE
  /\ notifyDue' = notifyDue + 1
  /\ last' = NoStep
  /\ UNCHANGED <<tables, insertQueue, wpc, batch, disk, calls, deleteLast, dbMutex>>

\* One of the notify calls that are due.
Notify ==
  /\ notifyDue > 0
  /\ notifyDue' = notifyDue - 1
  /\ wpc' = Wake(wpc)
  /\ last' = NoStep
  /\ UNCHANGED <<tables, insertQueue, stopWorker, batch, disk, calls, deleteLast,
                 dbMutex>>

\* cv.wait_for finds its predicate false under queueMutex, releases the lock
\* and blocks; the 5 s timeout is taken never to fire.
WorkerBlocks ==
  /\ wpc = "wait"
  /\ ~WaitPredicate(insertQueue, stopWorker)
  /\ wpc' = "blocked"
  /\ last' = NoStep
  /\ UNCHANGED <<tables, insertQueue, stopWorker, batch, disk, calls, deleteLast,
                 dbMutex, notifyDue>>

\* cv.wait_for finds its predicate true and the worker drains the queue.
WorkerProceeds == WaitPredicate(insertQueue, stopWorker) /\ WorkerDrain

\* A step of the worker thread.
WorkerStep ==
  \/ WorkerBlocks
  \/ WorkerProceeds
  \/ WorkerExit
  \/ WorkerApply
  \/ WorkerSave

\* One run of the engine with the condition variable: producers, the
\* destructor and the worker, which leaves its wait only when notified.
NextStop ==
  \/ InsertPush
  \/ Stop
  \/ Notify
  \/ WorkerBlocks
  \/ WorkerProceeds
  \/ WorkerExit
  \/ WorkerApply
  \/ WorkerSave

\* The worker thread and the threads that owe a notify keep running.
SpecStop == Init /\ [][NextStop]_vars /\ WF_vars(WorkerStep) /\ WF_vars(Notify)

\* shared_lock<shared_mutex> lock(dbMutex) is granted.
CanLockShared(m) == m.exclusive = {}

\* The mutant of CanLockExclusive: the lock is granted while readers hold it.
CanLockExclusiveAnyway(m) == m.exclusive = {}

\* unique_lock<shared_mutex> lock(dbMutex) is granted.
CanLockExclusive(m) == m.exclusive = {} /\ m.shared = {}

\* processInsert up to table.labelToID[label] = task.recordID.
processInsertRecord(tbls, task) ==
  LET t == task.tableName
      T1 == createTable(tbls, t, Len(task.embedding))
      table == T1[t]
      label == LabelFor(table, task.recordID)
      rec == [fields |-> task.fields, embedding |-> task.embedding, label |-> label]
  IN [T1 EXCEPT ![t] =
        [table EXCEPT
           !.index = IF table.index.present THEN table.index
                     ELSE NewIndex(Len(task.embedding)),
           !.records = (task.recordID :> rec) @@ table.records,
           !.labelToID = (label :> task.recordID) @@ table.labelToID,
           !.nextLabel = NextLabelAfter(table, task.recordID)]]

\* processInsert from the update of the field index to its end.
processInsertIndex(tbls, task, data) ==
  LET table == tbls[task.tableName]
  IN [tbls EXCEPT ![task.tableName] =
        [table EXCEPT
           !.fieldIndex = IndexFields(table.fieldIndex, task.recordID, task.fields),
           !.index = addPoint(table.index, data, table.records[task.recordID].label)]]

\* remove up to table.labelToID.erase(label).
removeErase(tbls, t, id) ==
  [tbls EXCEPT ![t] =
     [tbls[t] EXCEPT
        !.records = Without(tbls[t].records, id),
        !.labelToID = EraseLabel(tbls[t].labelToID, tbls[t].records[id].label)]]

\* remove from the loop over the fields to its end.
removeFinish(tbls, t, id, label, seen) ==
  LET table == tbls[t]
  IN [tbls EXCEPT ![t] =
        [table EXCEPT
           !.fieldIndex = UnindexFields(table.fieldIndex, id, seen),
           !.index = IF table.index.present /\ ~markDeleteThrows(table.index, label)
                     THEN markDelete(table.index, label) ELSE table.index]]

\* The worker enters processInsert: it takes dbMutex and stores the record.
ApplyLock ==
  /\ wpc = "apply"
  /\ CanLockExclusive(dbMutex)
  /\ dbMutex' = [dbMutex EXCEPT !.exclusive = @ \cup {[thread |-> "processInsert"]}]
  /\ tables' = processInsertRecord(tables, batch[NextTask(batch)])
  /\ wpc' = "applying"
  /\ last' = NoStep
  /\ UNCHANGED <<insertQueue, stopWorker, batch, disk, calls, deleteLast, notifyDue>>

\* The worker indexes the record and leaves processInsert.
ApplyUnlock ==
  /\ wpc = "applying"
  /\ LET task == batch[NextTask(batch)]
     IN \E data \in MemoryView(task.embedding, tables[task.tableName].index.dim) :
          tables' = processInsertIndex(tables, task, data)
  /\ dbMutex' = [dbMutex EXCEPT !.exclusive = @ \ {[thread |-> "processInsert"]}]
  /\ batch' = Tail(batch)
  /\ wpc' = IF Len(batch) = 1 THEN "save" ELSE "apply"
  /\ last' = NoStep
  /\ UNCHANGED <<insertQueue, stopWorker, disk, calls, deleteLast, notifyDue>>

\* A handler thread enters remove for a record it finds: it takes dbMutex
\* and erases the record and its label.
RemoveLock ==
  \E t \in TableNames, id \in RecordIDs :
    /\ Serving
    /\ calls < MaxCalls
    /\ CanLockExclusive(dbMutex)
    /\ removeFinds(tables, t, id)
    /\ dbMutex' = [dbMutex EXCEPT !.exclusive = @ \cup
                     {[thread |-> "remove", table |-> t, id |-> id,
                       label |-> tables[t].records[id].label]}]
    /\ tables' = removeErase(tables, t, id)
    /\ calls' = calls + 1
    /\ deleteLast' = deleteLast \cup {id}
    /\ last' = NoStep
    /\ UNCHANGED <<insertQueue, stopWorker, wpc, batch, disk, notifyDue>>

\* The handler thread updates the indexes and leaves remove.
RemoveUnlock ==
  \E h \in dbMutex.exclusive :
    /\ h.thread = "remove"
    /\ \E seen \in DanglingViews :
         tables' = removeFinish(tables, h.table, h.id, h.label, seen)
    /\ dbMutex' = [dbMutex EXCEPT !.exclusive = @ \ {h}]
    /\ last' = NoStep
    /\ UNCHANGED <<insertQueue, stopWorker, wpc, batch, disk, calls, deleteLast,
                   notifyDue>>

\* A handler thread enters queryField: it takes dbMutex shared.
QueryLock ==
  \E t \in TableNames, k \in Keys, v \in Vals :
    /\ Serving
    /\ CanLockShared(dbMutex)
    /\ dbMutex' = [dbMutex EXCEPT !.shared = @ \cup
                     {[thread |-> "queryField", table |-> t, field |-> k, value |-> v]}]
    /\ last' = NoStep
    /\ UNCHANGED <<tables, insertQueue, stopWorker, wpc, batch, disk, calls,
                   deleteLast, notifyDue>>

\* The handler thread leaves queryField.
QueryUnlock ==
  \E h \in dbMutex.shared :
    /\ h.thread = "queryField"
    /\ dbMutex' = [dbMutex EXCEPT !.shared = @ \ {h}]
    /\ last' = NoStep
    /\ UNCHANGED <<tables, insertQueue, stopWorker, wpc, batch, disk, calls,
                   deleteLast, notifyDue>>

\* The worker enters saveAllTables: it takes dbMutex shared and writes the
\* .json files.
SaveLock ==
  /\ wpc = "save"
  /\ CanLockShared(dbMutex)
  /\ dbMutex' = [dbMutex EXCEPT !.shared = @ \cup {[thread |-> "saveAllTables"]}]
  /\ disk' = [t \in DOMAIN tables |->
               [json |-> saveTable(tables[t]),
                index |-> IF t \in DOMAIN disk THEN disk[t].index ELSE NoIndex]]
             @@ disk
  /\ wpc' = "saving"
  /\ last' = NoStep
  /\ UNCHANGED <<tables, insertQueue, stopWorker, batch, calls, deleteLast, notifyDue>>

\* The worker writes the .index files and leaves saveAllTables.
SaveUnlock ==
  /\ wpc = "saving"
  /\ disk' = [t \in DOMAIN tables |->
               [json |-> IF t \in DOMAIN disk THEN disk[t].json ELSE <<>>,
                index |-> saveIndex(tables[t],
                            IF t \in DOMAIN disk THEN disk[t].index ELSE NoIndex)]]
             @@ disk
  /\ dbMutex' = [dbMutex EXCEPT !.shared = @ \ {[thread |-> "saveAllTables"]}]
  /\ wpc' = "wait"
  /\ last' = [op |-> "saved"]
  /\ UNCHANGED <<tables, insertQueue, stopWorker, batch, calls, deleteLast, notifyDue>>

\* One run of the engine with the critical sections on dbMutex taken in two
\* steps each, so that threads interleave wherever the lock lets them.
NextLock ==
  \/ Insert
  \/ WorkerDrain
  \/ ApplyLock
  \/ ApplyUnlock
  \/ RemoveLock
  \/ RemoveUnlock
  \/ QueryLock
  \/ QueryUnlock
  \/ SaveLock
  \/ SaveUnlock

SpecLock == Init /\ [][NextLock]_vars

\* ------------------------------------------------------------- claims
Live(t) == DOMAIN tables[t].records

\* Some queryEmbedding call on t may return a list that holds id.
EmbeddingCanReturn(t, id) ==
  \E q \in QueryVecs, topK \in TopKs :
    \E r \in queryEmbedding(tables, t, q, topK) : id \in Range(r)

\* Some queryField call on t returns a list that holds id.
FieldCanReturn(t, id) ==
  \E k \in Keys, v \in Vals : id \in Range(queryField(tables, t, k, v))

\* C1: once an upsert of record id with fields F has been applied to table t
\* (the record then holds F until the next upsert or delete of id is applied),
\* queryField(t, k, v) contains id for every pair (k, v) of F.
C1_InsertQueryFieldRoundTrip ==
  /\ last.op = "apply" =>
       /\ last.task.recordID \in Live(last.task.tableName)
       /\ tables[last.task.tableName].records[last.task.recordID].fields = last.task.fields
  /\ \A t \in DOMAIN tables : \A id \in Live(t) :
       \A k \in DOMAIN tables[t].records[id].fields :
         id \in Range(queryField(tables, t, k, tables[t].records[id].fields[k]))

\* An upsert of a record that was live under another field value has been
\* applied, and queryField finds the record under the new value.
C1_Witness ==
  /\ last.op = "apply"
  /\ last.existed
  /\ \E v \in Vals :
       /\ v # last.task.fields["name"]
       /\ last.task.recordID \in tables[last.task.tableName].fieldIndex["name"][v]
  /\ last.task.recordID \in
       Range(queryField(tables, last.task.tableName, "name", last.task.fields["name"]))

\* C2: after remove(t, id) of a record that was present, id is absent from
\* records, its label from labelToID, id is in no bucket of fieldIndex for the
\* field/value pairs it held, its label is marked deleted in the ANN index, and
\* no queryField and no queryEmbedding on t returns id.
C2_DeleteEffect ==
  (last.op = "remove" /\ last.found) =>
    LET t == last.table
        id == last.id
    IN /\ id \notin Live(t)
       /\ last.label \notin DOMAIN tables[t].labelToID
       /\ \A k \in DOMAIN last.fields : id \notin tables[t].fieldIndex[k][last.fields[k]]
       /\ tables[t].index.present => last.label \in tables[t].index.deleted
       /\ ~FieldCanReturn(t, id)
       /\ ~EmbeddingCanReturn(t, id)

\* The worker is idle and nothing is queued.
Drained == insertQueue = <<>> /\ batch = <<>> /\ wpc = "wait"

\* C3: when the latest write call naming id is a remove (called after every
\* insert of id returned), then once the queue is drained and the worker idle,
\* id is not in records and no queryField and no queryEmbedding returns id,
\* whether the worker applied the queued insert before or after the remove ran.
C3_InsertThenDelete ==
  Drained =>
    \A id \in deleteLast : \A t \in DOMAIN tables :
      /\ id \notin Live(t)
      /\ ~FieldCanReturn(t, id)
      /\ ~EmbeddingCanReturn(t, id)

\* The squared L2 distance of record id's embedding from q.
RecordDist(t, id, q) == SqSum(tables[t].records[id].embedding, q, Len(q))

\* C4: queryEmbedding(t, q, topK) returns at most min(topK, live records)
\* distinct live record ids, ordered by non-decreasing L2 distance from q,
\* nearest first.
C4_EmbeddingNearestFirst ==
  (/\ last.op = "queryEmbedding"
   /\ last.table \in DOMAIN tables
   /\ \A id \in Live(last.table) :
        Len(tables[last.table].records[id].embedding) = Len(last.query)) =>
    LET t == last.table
        r == last.result
    IN /\ Len(r) <= Min(last.topK, Cardinality(Live(t)))
       /\ \A i \in DOMAIN r : r[i] \in Live(t)
       /\ \A i, j \in DOMAIN r : i # j => r[i] # r[j]
       /\ \A i, j \in DOMAIN r :
            i < j => RecordDist(t, r[i], last.query) <= RecordDist(t, r[j], last.query)

\* C5: queryEmbedding on an existing table whose dim differs from the length
\* of the query vector fails with DimensionMismatch (HTTP 400) and performs no
\* ANN search.
C5_DimensionMismatchRejected ==
  (/\ last.op = "queryEmbedding"
   /\ last.table \in DOMAIN tables
   /\ tables[last.table].dim # Len(last.query)) =>
    /\ last.status = 400
    /\ ~last.searched

\* The first up to n elements of s.
Prefix(s, n) == SubSeq(s, 1, Min(Len(s), n))

\* s restricted to the elements in S, in s's order.
Restrict(s, S) == LET InS(x) == x \in S IN SelectSeq(s, InS)

\* C6: queryHybrid(t, field, value, q, topK) returns [] when
\* F = queryField(t, field, value) is empty, and otherwise the first up to topK
\* elements, in C's order, of C = queryEmbedding(t, q, topK*10) restricted to
\* the ids in F; so it returns [] when no element of C is in F.
C6_HybridIsFilteredPrefix ==
  last.op = "queryHybrid" =>
    LET F == queryField(tables, last.table, last.field, last.value)
        C == last.candidateIDs
    IN /\ last.filteredIDs = F
       /\ F = <<>> => last.result = <<>>
       /\ F # <<>> =>
            /\ C \in queryEmbedding(tables, last.table, last.query, last.topK * 10)
            /\ last.result = Prefix(Restrict(C, Range(F)), last.topK)
       /\ Range(C) \cap Range(F) = {} => last.result = <<>>

\* A hybrid query whose filter dropped a candidate and kept another.
C6_Witness ==
  /\ last.op = "queryHybrid"
  /\ last.result # <<>>
  /\ Len(last.candidateIDs) > Len(Restrict(last.candidateIDs, Range(last.filteredIDs)))

\* C7: when every live record of t matches the field predicate, queryHybrid(t,
\* field, value, q, topK) equals queryEmbedding(t, q, topK), the same ids in
\* the same order, also for tables with more than topK records.
C7_HybridEqualsEmbedding ==
  (/\ last.op = "queryHybrid"
   /\ last.table \in DOMAIN tables
   /\ \A id \in Live(last.table) :
        /\ last.field \in DOMAIN tables[last.table].records[id].fields
        /\ tables[last.table].records[id].fields[last.field] = last.value) =>
    last.result \in queryEmbedding(tables, last.table, last.query, last.topK)

\* C8: a fresh engine constructed from the storage directory after a quiesce
\* (queue empty, worker idle, snapshot taken after the last write) has, for
\* every table, records, labelToID and fieldIndex equal to the values in
\* memory before the restart.
C8_RestartRoundTrip ==
  (last.op = "restart" /\ last.quiesced) =>
    /\ DOMAIN tables = DOMAIN last.before
    /\ \A t \in DOMAIN last.before :
         /\ tables[t].records = last.before[t].records
         /\ tables[t].labelToID = last.before[t].labelToID
         /\ tables[t].fieldIndex = last.before[t].fieldIndex

\* The record as the upsert just applied leaves it.
AppliedRecord(task) ==
  LET r == tables'[task.tableName].records[task.recordID]
  IN r.fields = task.fields /\ r.embedding = task.embedding

\* C9: the worker applies the tasks in the order insert enqueued them, within
\* a batch and across batches: every step leaves the accepted-and-unapplied
\* tasks as they are, appends one at the tail, or applies the one at the head
\* and leaves the record with that task's fields and embedding (a restart
\* empties the queue).  So of two upserts of one record, the one enqueued first
\* is applied first and the record ends with the second's content.
C9_QueueFIFO ==
  [][\/ Pending' = Pending
     \/ /\ Pending' # <<>>
        /\ Pending' = Append(Pending, Pending'[Len(Pending')])
     \/ /\ Pending # <<>>
        /\ Pending' = Tail(Pending)
        /\ last'.op = "apply"
        /\ last'.task = Head(Pending)
        /\ AppliedRecord(Head(Pending))
     \/ /\ last'.op = "restart"
        /\ Pending' = <<>>]_vars

\* A second upsert of a live record has been applied while another task is
\* still pending behind it, and the record holds the applied upsert's content.
C9_Witness ==
  /\ last.op = "apply"
  /\ last.existed
  /\ Pending # <<>>
  /\ tables[last.task.tableName].records[last.task.recordID].fields = last.task.fields
  /\ tables[last.task.tableName].records[last.task.recordID].embedding = last.task.embedding

\* C10: in every table, id is in fieldIndex[k][v] exactly when id is a live
\* record whose current fields map k to v, also after an upsert that changes a
\* field value and after deletes.
C10_FieldIndexExact ==
  \A t \in DOMAIN tables : \A k \in Keys, v \in Vals, id \in RecordIDs :
    id \in tables[t].fieldIndex[k][v] <=>
      /\ id \in Live(t)
      /\ k \in DOMAIN tables[t].records[id].fields
      /\ tables[t].records[id].fields[k] = v

\* C11: in every table labelToID is a bijection with the live records: every
\* record's label maps back to its id, every entry (l, id) names a live record
\* whose label is l, and no two live records share a label.
C11_LabelBijection ==
  \A t \in DOMAIN tables :
    LET T == tables[t]
    IN /\ \A id \in DOMAIN T.records :
            /\ T.records[id].label \in DOMAIN T.labelToID
            /\ T.labelToID[T.records[id].label] = id
       /\ \A l \in DOMAIN T.labelToID :
            /\ T.labelToID[l] \in DOMAIN T.records
            /\ T.records[T.labelToID[l]].label = l
       /\ \A a, b \in DOMAIN T.records :
            a # b => T.records[a].label # T.records[b].label

\* One of two live records has just been removed: its entry is gone and the
\* other record's entry is still there.
C11_Witness ==
  /\ last.op = "remove"
  /\ last.found
  /\ Cardinality(Live(last.table)) = 1
  /\ DOMAIN tables[last.table].labelToID # {}
  /\ last.label \notin DOMAIN tables[last.table].labelToID

\* C12: within one run of the engine (no restart), a table's nextLabel never
\* decreases, and a record created by a step gets the label nextLabel had
\* before the step while nextLabel moves past it; so the labels of newly
\* created records strictly increase in application order and none is
\* allocated twice, also for a record deleted and inserted again.
C12_LabelsIncrease ==
  [][last'.op # "restart" =>
       \A t \in DOMAIN tables' :
         LET old == IF t \in DOMAIN tables THEN tables[t].nextLabel ELSE 0
             oldLive == IF t \in DOMAIN tables THEN DOMAIN tables[t].records ELSE {}
         IN /\ tables'[t].nextLabel >= old
            /\ \A id \in DOMAIN tables'[t].records \ oldLive :
                 /\ tables'[t].records[id].label = old
                 /\ tables'[t].nextLabel > old]_vars

\* A record has been created after a delete in its table and holds a label
\* above the deleted one.
C12_Witness ==
  /\ last.op = "apply"
  /\ ~last.existed
  /\ LET T == tables[last.task.tableName]
     IN /\ T.index.deleted # {}
        /\ \A l \in T.index.deleted : T.records[last.task.recordID].label > l

\* C13: in every table nextLabel is greater than every label ever inserted:
\* greater than the label of every live record and of every point the ANN
\* index holds (deleted ones included), and a table recovered from its
\* snapshot has a nextLabel not below the one it had before the restart.
C13_NextLabelAboveAll ==
  /\ \A t \in DOMAIN tables :
       /\ \A id \in Live(t) : tables[t].records[id].label < tables[t].nextLabel
       /\ \A l \in DOMAIN tables[t].index.points : l < tables[t].nextLabel
  /\ (last.op = "restart" /\ last.quiesced) =>
       \A t \in DOMAIN last.before :
         /\ t \in DOMAIN tables
         /\ tables[t].nextLabel >= last.before[t].nextLabel

\* C14: every record stored in a table has an embedding whose length is the
\* table's dim.
C14_EmbeddingLengthIsDim ==
  \A t \in DOMAIN tables : \A id \in Live(t) :
    Len(tables[t].records[id].embedding) = tables[t].dim

\* C15: every table that holds at least one record has dim > 0.
C15_DimPositive ==
  \A t \in DOMAIN tables : Live(t) # {} => tables[t].dim > 0

\* C16: the writes of one drained batch become visible together: no query runs
\* on a state in which some tasks of a batch have been applied and others of
\* the same batch have not; in particular no query is the step that follows
\* the application of a task while the batch still holds tasks to apply.
C16_BatchAtomicVisibility ==
  [][(last.op = "apply" /\ wpc = "apply") => last'.op \notin QueryOps]_vars

\* A step that is a call of insert or update: a write call that is not a remove.
EnqueueStep == calls' = calls + 1 /\ last'.op = "none"

\* C17: insert and update only append exactly one task {table, id, fields,
\* embedding} to the tail of the queue: tables (records, labelToID, fieldIndex,
\* nextLabel, the ANN index), the worker's batch and the files on disk are
\* unchanged; and update enqueues the task insert would.
C17_InsertOnlyEnqueues ==
  [][/\ EnqueueStep =>
          /\ \E t \in TableNames, id \in RecordIDs, b \in Bodies :
               insertQueue' = Append(insertQueue,
                 [tableName |-> t, recordID |-> id,
                  fields |-> b.fields, embedding |-> b.embedding])
          /\ UNCHANGED <<tables, disk, batch, wpc, stopWorker>>
     /\ Update <=> Insert]_vars

\* Tasks are queued one behind the other while tables and files are populated.
C17_Witness ==
  /\ Len(insertQueue) >= 2
  /\ last.op = "none"
  /\ \E t \in DOMAIN tables : Live(t) # {}
  /\ \E t \in DOMAIN disk : disk[t].json # <<>>

\* C18: remove on an unknown table or an unknown record id, and queryField,
\* queryEmbedding and queryHybrid on an unknown table, leave the engine state
\* unchanged (the table is not created), raise no error, and the queries
\* return the empty list.
C18_AbsentTargetNoOp ==
  [][/\ (last'.op = "remove" /\ ~last'.found) =>
          /\ UNCHANGED <<tables, insertQueue, batch, disk, wpc, stopWorker>>
          /\ last'.status = 200
     /\ (last'.op \in QueryOps /\ last'.table \notin DOMAIN tables) =>
          /\ UNCHANGED <<tables, insertQueue, batch, disk, wpc, stopWorker>>
          /\ last'.result = <<>>
          /\ last'.op = "queryEmbedding" => (last'.status = 200 /\ ~last'.searched)]_vars

\* remove has been called on a table that does not exist while a task for
\* that table waits in the queue.
C18_Witness ==
  /\ last.op = "remove"
  /\ ~last.found
  /\ last.table \notin DOMAIN tables
  /\ insertQueue # <<>>

\* C19: an upsert applied to a record id that is already live keeps the
\* record's label, leaves nextLabel and the key set of labelToID unchanged,
\* replaces the record's fields and embedding with the task's, and re-adds the
\* point to the ANN index at the same label.
C19_UpsertKeepsLabel ==
  [][(last'.op = "apply" /\ last'.existed) =>
       LET task == last'.task
           old == tables[task.tableName]
           new == tables'[task.tableName]
           l == old.records[task.recordID].label
       IN /\ new.records[task.recordID].label = l
          /\ new.nextLabel = old.nextLabel
          /\ DOMAIN new.labelToID = DOMAIN old.labelToID
          /\ new.labelToID[l] = task.recordID
          /\ new.records[task.recordID].fields = task.fields
          /\ new.records[task.recordID].embedding = task.embedding
          /\ DOMAIN new.index.points = DOMAIN old.index.points
          /\ l \notin new.index.deleted
          /\ new.index.points[l] = SubSeq(task.embedding, 1, new.index.dim)]_vars

\* An upsert of a live record has been applied after a later record took its
\* own label: the record still holds its earlier label.
C19_Witness ==
  /\ last.op = "apply"
  /\ last.existed
  /\ LET T == tables[last.task.tableName]
     IN T.records[last.task.recordID].label + 1 < T.nextLabel

\* C20: once an upsert of record id with embedding e has been applied the
\* record holds e, and for every live record the ANN index holds exactly the
\* point e at the record's label, not deleted (so no point at an earlier
\* embedding), and queryEmbedding(t, e, 1) returns [id] when no other live
\* record of t has the embedding e.
C20_EmbeddingRoundTrip ==
  /\ last.op = "apply" =>
       tables[last.task.tableName].records[last.task.recordID].embedding
         = last.task.embedding
  /\ \A t \in DOMAIN tables : \A id \in Live(t) :
       LET r == tables[t].records[id]
           idx == tables[t].index
       IN /\ idx.present
          /\ r.label \in DOMAIN idx.points
          /\ r.label \notin idx.deleted
          /\ idx.points[r.label] = r.embedding
          /\ (\A o \in Live(t) \ {id} : tables[t].records[o].embedding # r.embedding)
               => queryEmbedding(tables, t, r.embedding, 1) = {<<id>>}

\* An update has been applied to a record whose snapshot still has the
\* earlier embedding e1, another live record sits at e1, and the query by the
\* new embedding finds the updated record.
C20_Witness ==
  /\ last.op = "apply"
  /\ last.existed
  /\ LET t == last.task.tableName
         id == last.task.recordID
     IN /\ t \in DOMAIN disk
        /\ \E i \in DOMAIN disk[t].json :
             /\ disk[t].json[i].id = id
             /\ disk[t].json[i].embedding # last.task.embedding
             /\ \E o \in Live(t) \ {id} :
                  tables[t].records[o].embedding = disk[t].json[i].embedding
        /\ queryEmbedding(tables, t, last.task.embedding, 1) = {<<id>>}

\* C21: when a table's .index file is present but cannot be deserialized,
\* recovery still completes: the engine has started its worker and serves,
\* every table's records, labelToID and fieldIndex are those of the snapshot,
\* and the table's ANN index is absent.
C21_UnreadableIndexRecovery ==
  (last.op = "recover" /\ last.unreadable) =>
    /\ wpc = "wait"
    /\ ~stopWorker
    /\ \A t \in DOMAIN disk :
         /\ t \in DOMAIN tables
         /\ LET snapshot == LoadRecords(NewTable(0), disk[t].json)
            IN /\ tables[t].records = snapshot.records
               /\ tables[t].labelToID = snapshot.labelToID
               /\ tables[t].fieldIndex = snapshot.fieldIndex
         /\ loadThrows(disk[t]) => ~tables[t].index.present

\* C28: in every table whose ANN index exists, the labels present and not
\* marked deleted in the index are the keys of labelToID, and the point at
\* each of them is the current embedding of the record labelToID names.
C28_IndexCoverage ==
  \A t \in DOMAIN tables :
    tables[t].index.present =>
      /\ LiveLabels(tables[t].index) = DOMAIN tables[t].labelToID
      /\ \A l \in DOMAIN tables[t].labelToID :
           /\ l \in DOMAIN tables[t].index.points
           /\ tables[t].labelToID[l] \in Live(t)
           /\ tables[t].index.points[l]
                = tables[t].records[tables[t].labelToID[l]].embedding

\* C22: each worker iteration moves exactly min(queue length, batch limit)
\* tasks from the head of the queue to its batch, in queue order and in one
\* step under the queue lock, applies them in that order, and then snapshots
\* every table before it waits and drains again; the snapshot is taken on
\* every iteration, also when the batch is empty.
C22_WorkerBatching ==
  [][last'.op # "restart" =>
       /\ (wpc = "wait" /\ wpc' \in {"apply", "save"}) =>
            LET n == Min(Len(insertQueue), BatchSize)
            IN /\ batch' = SubSeq(insertQueue, 1, n)
               /\ insertQueue' = SubSeq(insertQueue, n + 1, Len(insertQueue))
               /\ wpc' = "save" <=> n = 0
               /\ tables' = tables
       /\ wpc # "wait" =>
            /\ Len(insertQueue') >= Len(insertQueue)
            /\ SubSeq(insertQueue', 1, Len(insertQueue)) = insertQueue
       /\ (wpc = "apply" /\ batch' # batch) =>
            /\ batch' = Tail(batch)
            /\ last'.op = "apply"
            /\ last'.task = Head(batch)
            /\ wpc' = IF batch' = <<>> THEN "save" ELSE "apply"
       /\ (wpc = "save" /\ wpc' # "save") =>
            /\ wpc' = "wait"
            /\ tables' = tables
            /\ disk' = saveAllTables(tables, disk)
       /\ (wpc # "wait" /\ wpc' = "wait") => wpc = "save"]_vars

\* The worker has drained a full batch and left tasks in the queue.
C22_Witness ==
  /\ wpc = "apply"
  /\ Len(batch) = BatchSize
  /\ insertQueue # <<>>
  /\ last.op = "none"

\* C26: the worker has left its loop only with the stop flag set, the queue
\* and its batch empty, and every record the applied upserts left in the
\* tables written to the snapshot as it is: no accepted upsert is discarded
\* by shutdown.
C26_ShutdownDrains ==
  wpc = "exited" =>
    /\ stopWorker
    /\ Pending = <<>>
    /\ \A t \in DOMAIN tables :
         /\ t \in DOMAIN disk
         /\ \A id \in Live(t) :
              \E i \in DOMAIN disk[t].json :
                /\ disk[t].json[i].id = id
                /\ disk[t].json[i].fields = tables[t].records[id].fields
                /\ disk[t].json[i].embedding = tables[t].records[id].embedding
                /\ disk[t].json[i].label = tables[t].records[id].label

\* The worker has exited after every accepted write call was an upsert it applied.
C26_Witness ==
  /\ wpc = "exited"
  /\ calls = MaxCalls
  /\ deleteLast = {}
  /\ \E t \in DOMAIN tables : Cardinality(Live(t)) = 2

\* C27: when remove(t, id) has returned for a record that was present in the
\* last snapshot, no later write names id, and the engine is shut down through
\* its destructor and a fresh engine recovered from the storage directory, id
\* is absent from the recovered table's records and returned by no queryField.
C27_DeleteSurvivesRestart ==
  [][(last'.op = "restart" /\ wpc = "exited") =>
       \A t \in DOMAIN tables : \A id \in deleteLast :
         (id \notin Live(t) /\ t \in DOMAIN tables') =>
           /\ id \notin DOMAIN tables'[t].records
           /\ \A k \in Keys, v \in Vals :
                id \notin Range(queryField(tables', t, k, v))]_vars

\* C24: once the destructor has set the stop flag, the worker eventually
\* leaves its loop (so the destructor's join returns), also when it was
\* blocked in its wait and however the flag write, the notify and the wait
\* interleave.
C24_ShutdownTerminates == stopWorker ~> (wpc = "exited")

\* The stop flag has been set while the worker is blocked in its wait and
\* the destructor's notify_all has not been made yet.
C24_Witness ==
  /\ stopWorker
  /\ wpc = "blocked"
  /\ notifyDue > 0

\* The tasks a call of insert or update can enqueue.
Tasks ==
  {[tableName |-> t, recordID |-> id, fields |-> b.fields, embedding |-> b.embedding] :
     t \in TableNames, id \in PushIDs, b \in PushBodies}

\* C25: every task insert or update has enqueued is eventually applied to its
\* table, and after a task is applied a snapshot of the tables that have it
\* is eventually on disk, whatever the number of tasks pending (more than one
\* batch included).
C25_WriteLiveness ==
  /\ \A x \in Tasks :
       (x \in Range(Pending)) ~> (last.op = "apply" /\ last.task = x)
  /\ (last.op = "apply") ~> (Pending = <<>> /\ wpc # "save" /\ SnapshotCurrent)

\* More tasks are queued than one batch takes while the worker is blocked in
\* its wait.
C25_Witness ==
  /\ Len(insertQueue) > BatchSize
  /\ wpc = "blocked"

\* The .json and the .index of every table on disk belong together: the
\* labels of the saved records are the live labels of the saved index.
SnapshotCoherent ==
  \A t \in DOMAIN disk :
    {disk[t].json[i].label : i \in DOMAIN disk[t].json} = LiveLabels(disk[t].index)

\* C23: while processInsert or remove is inside its critical section on
\* dbMutex no other call is inside one; calls holding the lock shared
\* (queryField, the snapshot flush) may overlap each other, and they only see
\* tables between complete writes (labelToID and the ANN index agree with
\* records); hence a finished snapshot is that of the tables as they are
\* between complete writes, its .json and .index files belonging together.
C23_LockDiscipline ==
  /\ dbMutex.exclusive # {} =>
       /\ Cardinality(dbMutex.exclusive) = 1
       /\ dbMutex.shared = {}
  /\ dbMutex.shared # {} => (C11_LabelBijection /\ C28_IndexCoverage)
  /\ last.op = "saved" => (SnapshotCurrent /\ SnapshotCoherent)

\* A queryField and the snapshot flush are inside their critical sections
\* together while the worker's next processInsert waits for the lock.
C23_Witness ==
  /\ \E h \in dbMutex.shared : h.thread = "queryField"
  /\ wpc = "saving"
  /\ insertQueue # <<>>
  /\ \E t \in DOMAIN tables : Live(t) # {}

====
